---- MODULE Spec2Model ----
(***************************************************************************)
(* Room-System-V2: the bookings table of the hosted database, the stored   *)
(* function release_expired_holds, and the Dashboard component's booking   *)
(* handlers (upsertBooking, updateBookingStatus, deleteBooking) with the   *)
(* lists they reload.                                                      *)
(*                                                                         *)
(* Dates are the ISO strings "yyyy-MM-dd" of the date inputs and of the    *)
(* date columns; they are modelled by their day number, which orders them  *)
(* as the string comparison of the handler and the date comparison of the  *)
(* database do.  Timestamps (auto_release_at, now()) are instants on one   *)
(* clock.  Columns that no handler's decision reads (e-mail, passport,     *)
(* notes, adults, reference_code, created_by) are left out of the rows.    *)
(***************************************************************************)
EXTENDS Integers, Sequences, FiniteSets, Bags, TLC

\* ------------------------------------------------------------ bounds ----
MaxBookings == 2      \* booking ids the database hands out
NumRooms == 2         \* rooms of the selected property
MaxDay == 3           \* calendar days 1..MaxDay
MaxNow == 2           \* the clock runs 0..MaxNow
MaxDeadline == 1      \* auto-release instants 1..MaxDeadline
MaxCalls == 2         \* upsertBooking calls in flight at once
NumCategories == 1    \* room categories of the property
MaxRequests == 2      \* loadBookingsPage requests in flight at once
MonthDays == 30       \* days of a month of the calendar
MaxCalendarDay == 90
MaxStored == 21        \* bookings stored when the list is paged
BOOKINGS_PAGE_SIZE == 10  \* days of the calendar, 1..MaxCalendarDay

\* ------------------------------------------------------------ values ----
NULL == 0             \* SQL null / JS null in a nullable column or field
EmptyDate == 0        \* "" in a date field of the draft
SignedIn == 1         \* the session of the signed-in user

BookingIds == 1..MaxBookings
Rooms == 1..NumRooms
Days == 1..MaxDay
Instants == 0..MaxNow
Deadlines == 1..MaxDeadline
Properties == {1}
Calls == 1..MaxCalls
Categories == 1..NumCategories

bookingStatuses == {"reserved", "tentative", "checked_in", "checked_out", "cancelled"}

\* Room lists a draft can hold: the multi-select toggles a room in or out,
\* so a list has no room twice; its order is the order of selection.
RoomLists ==
  {s \in UNION {[1..n -> Rooms] : n \in 0..NumRooms} :
     \A i, j \in DOMAIN s : i # j => s[i] # s[j]}

defaultBookingDraft ==
  [id |-> NULL, guest_name |-> "", room_ids |-> <<>>,
   check_in |-> EmptyDate, check_out |-> EmptyDate,
   status |-> "reserved", auto_release_at |-> NULL]

VARIABLES
  bookingsTable,         \* public.bookings: id -> row, for the ids stored
  nextId,                \* the next id the database generates
  bookingLogs,           \* public.booking_logs, a bag of rows
  now,                   \* the database clock
  selectedPropertyId,    \* Dashboard state
  bookings,              \* Dashboard state: the loaded bookings list
  availabilityBookings,  \* Dashboard state: bookings of the availability view
  calls,                 \* upsertBooking calls that are awaiting the database
  propertiesTable,       \* public.properties: the ids stored
  categoriesTable,       \* public.room_categories: the ids stored
  roomsTable,            \* public.rooms: id -> category_id, for the ids stored
  bookingStatusFilter,   \* Dashboard state: the status filter of the list
  requests,              \* loadBookingsPage requests awaiting their response
  bookingToDelete,       \* BookingsView state: the booking of the open dialog
  session,               \* Dashboard state: the auth session, NULL when signed out
  calendarMonth,         \* Dashboard state: the month shown by the calendar
  viewMode,              \* AvailabilityView state: "month" or "half"
  halfIndex,             \* AvailabilityView state: which half, 0 or 1
  rangeSelection,        \* AvailabilityView state: the days clicked in a room
  bookingModalOpen,      \* Dashboard state: the booking form is open
  bookingDraft,          \* Dashboard state: the draft in the booking form
  timeZone,              \* where the browser's clock is, which never changes
  bookingsPage,          \* Dashboard state: the page of the bookings list
  bookingsCount          \* Dashboard state: the count the last load returned

\* the tables of the property's set-up
adminVars == <<propertiesTable, categoriesTable, roomsTable>>

\* what the booking handlers leave alone
calendarVars == <<calendarMonth, viewMode, halfIndex, rangeSelection,
                  bookingModalOpen, bookingDraft>>
pageVars == <<bookingsPage, bookingsCount>>
otherExt == <<adminVars, bookingStatusFilter, requests, bookingToDelete, session,
              calendarVars, timeZone>>
ext == <<otherExt, pageVars>>

vars == <<bookingsTable, nextId, bookingLogs, now, selectedPropertyId,
          bookings, availabilityBookings, calls, ext>>

\* ------------------------------------------------------ SQL helpers ----
\* a comparison with null is unknown, and a row whose WHERE is unknown is
\* not selected
SqlLt(a, b) == a # NULL /\ b # NULL /\ a < b

Restrict(f, S) == [i \in S |-> f[i]]

\* ------------------------------------------------------ list loading ---
\* loadBookingsPage: the rows of the selected property as the database
\* holds them at the time of the request (the month, status, search and
\* page choices select which of them are shown; any row can be shown).
LoadedBookings(table) == table

\* the rows of a loadBookingsPage response: if (status !== "all")
\* query = query.eq("status", status)
loadBookingsPage(table, status) ==
  IF status = "all" THEN LoadedBookings(table)
  ELSE Restrict(table, {i \in DOMAIN table : table[i].status = status})

\* .range(from, to): the rows at the places from..to of the response,
\* counted from 0 in the order of the ids
QueryRange(list, from, to) ==
  Restrict(list, {i \in DOMAIN list :
                    Cardinality({j \in DOMAIN list : j < i}) \in from..to})

\* what a loadBookingsPage(page, { status }) response sets: the rows of the
\* page, the count of all the rows selected, the page
BookingsPage(table, status, page) ==
  LET from == (page - 1) * BOOKINGS_PAGE_SIZE
      to == from + BOOKINGS_PAGE_SIZE - 1
  IN  [bookings |-> QueryRange(loadBookingsPage(table, status), from, to),
       count |-> Cardinality(DOMAIN loadBookingsPage(table, status)),
       page |-> page]

\* setBookings(...); setBookingsCount(...); setBookingsPage(page)
SetBookingsPage(r) ==
  /\ bookings' = r.bookings
  /\ bookingsCount' = r.count
  /\ bookingsPage' = r.page

\* loadAvailabilityBookings: .neq("status", "cancelled")
LoadedAvailability(table) ==
  Restrict(table, {i \in DOMAIN table : table[i].status # "cancelled"})

\* the months of the calendar and the days they are made of
Months == 1..(MaxCalendarDay \div MonthDays)
CalendarDays == 1..MaxCalendarDay

\* where the browser's clock is: behind UTC, on UTC, ahead of UTC
TimeZones == {"west", "utc", "east"}

\* A Date is an instant of local time.  The instants of the model are the
\* start of a day (00:00) and its end (23:59:59.999): 2 * day and
\* 2 * day + 1.
Midnight(day) == 2 * day
DayOf(date) == date \div 2
startOfDay(date) == 2 * (date \div 2)
addDays(date, n) == date + 2 * n

\* date-fns differenceInDays: the full days between two instants
differenceInDays(later, earlier) ==
  IF later >= earlier THEN (later - earlier) \div 2
  ELSE 0 - ((earlier - later) \div 2)

\* date-fns startOfMonth / endOfMonth: the first day of the month at 00:00
\* and its last day at 23:59:59.999
startOfMonth(month) == Midnight((month - 1) * MonthDays + 1)
endOfMonth(month) == Midnight(month * MonthDays) + 1

\* the month of today: useState(() => startOfMonth(new Date()))
ThisMonth == 1

\* date.toISOString().split("T")[0]: the date in UTC of a local instant
toISODate(date, tz) ==
  IF tz = "east" /\ date % 2 = 0 THEN DayOf(date) - 1
  ELSE IF tz = "west" /\ date % 2 = 1 THEN DayOf(date) + 1
  ELSE DayOf(date)

\* new Date("yyyy-MM-dd"): 00:00 UTC of the day as an instant of local
\* time, which behind UTC is in the evening of the day before
NewDate(day, tz) == IF tz = "west" THEN Midnight(day) - 1 ELSE Midnight(day)

\* loadAvailabilityBookings(propertyId, month): .neq("status", "cancelled")
\* .lt("check_in", endDate).gt("check_out", startDate)
loadAvailabilityBookings(table, month, tz) ==
  LET startDate == toISODate(startOfMonth(month), tz)
      endDate == toISODate(addDays(endOfMonth(month), 1), tz)
  IN  Restrict(table, {i \in DOMAIN table :
                         /\ table[i].status # "cancelled"
                         /\ table[i].check_in < endDate
                         /\ table[i].check_out > startDate})

\* ------------------------------------------- the availability calendar --
\* daysInMonth
daysInMonth(month) ==
  [i \in 1..(differenceInDays(endOfMonth(month), startOfMonth(month)) + 1) |->
     addDays(startOfMonth(month), i - 1)]

halfMonthRange(month, half) ==
  LET monthStart == startOfMonth(month)
      monthEnd == endOfMonth(month)
      isFirstHalf == half = 0
      start == addDays(monthStart, IF isFirstHalf THEN 0 ELSE 15)
      plannedEnd == IF isFirstHalf THEN addDays(monthStart, 14) ELSE monthEnd
      clampedEnd == IF plannedEnd > monthEnd THEN monthEnd ELSE plannedEnd
  IN  IF start > monthEnd
        THEN [start |-> monthEnd, endExclusive |-> addDays(monthEnd, 1),
              days |-> <<monthEnd>>]
        ELSE [start |-> start, endExclusive |-> addDays(clampedEnd, 1),
              days |-> [i \in 1..(differenceInDays(clampedEnd, start) + 1) |->
                          addDays(start, i - 1)]]

visibleRange(month, mode, half) ==
  IF mode = "month"
    THEN [start |-> startOfMonth(month),
          endExclusive |-> addDays(endOfMonth(month), 1),
          days |-> daysInMonth(month)]
    ELSE halfMonthRange(month, half)

\* bookingsWithDates: checkInDate and checkOutDate of a booking
bookingWithDates(b, tz) ==
  [checkInDate |-> startOfDay(NewDate(b.check_in, tz)),
   checkOutDate |-> startOfDay(NewDate(b.check_out, tz))]

\* getBookingPosition: <<>> for null, else <<startIndex, duration>>, the
\* numerators of left and width over visibleRange.days.length
getBookingPosition(booking, range) ==
  LET rangeStart == range.start
      rangeEnd == range.endExclusive
  IN  IF booking.checkOutDate <= rangeStart \/ booking.checkInDate >= rangeEnd
        THEN <<>>
        ELSE LET start == IF booking.checkInDate < rangeStart THEN rangeStart
                          ELSE booking.checkInDate
                 end == IF booking.checkOutDate > rangeEnd THEN rangeEnd
                        ELSE booking.checkOutDate
             IN  <<differenceInDays(start, rangeStart), differenceInDays(end, start)>>

EmptySelection == [roomId |-> NULL, checkIn |-> NULL, checkOut |-> NULL]

\* handleDayClick(roomId, day): the selection it leaves and the arguments
\* of its call of onAddBooking, <<>> when it makes none
handleDayClick(roomId, day, selection) ==
  LET normalizedDay == startOfDay(day)
      restart == [selection |-> [roomId |-> roomId, checkIn |-> normalizedDay,
                                 checkOut |-> NULL],
                  added |-> <<>>]
  IN  IF selection.checkIn = NULL \/ selection.roomId # roomId
           \/ selection.checkOut # NULL
        THEN restart
      ELSE IF normalizedDay <= selection.checkIn
        THEN restart
      ELSE [selection |-> EmptySelection,
            added |-> <<roomId, selection.checkIn, normalizedDay>>]

\* onAddBooking(roomId, checkIn, checkOut): the draft of the form;
\* format(date, "yyyy-MM-dd") is the local day
onAddBooking(roomId, checkIn, checkOut) ==
  [defaultBookingDraft EXCEPT !.room_ids = <<roomId>>,
                              !.check_in = DayOf(checkIn),
                              !.check_out = DayOf(checkOut)]

\* ------------------------------------------------- conflict queries ----
\* an edit query that only finds bookings starting on the same day
MutEditConflictQuery(table, roomId, check_in, check_out, id) ==
  {i \in DOMAIN table :
     /\ table[i].room_id = roomId
     /\ table[i].status # "cancelled"
     /\ table[i].check_in = check_in
     /\ i # id}

\* an edit query without .neq("id", bookingDraft.id)
MutEditConflictQuerySelf(table, roomId, check_in, check_out, id) ==
  {i \in DOMAIN table :
     /\ table[i].room_id = roomId
     /\ table[i].status # "cancelled"
     /\ table[i].check_in < check_out
     /\ table[i].check_out > check_in}

\* the edit branch of upsertBooking
EditConflictQuery(table, roomId, check_in, check_out, id) ==
  {i \in DOMAIN table :
     /\ table[i].room_id = roomId
     /\ table[i].status # "cancelled"
     /\ table[i].check_in < check_out
     /\ table[i].check_out > check_in
     /\ i # id}

\* a create query without .neq("status", "cancelled")
MutCreateConflictQueryAll(table, roomId, check_in, check_out) ==
  {i \in DOMAIN table :
     /\ table[i].room_id = roomId
     /\ table[i].check_in < check_out
     /\ table[i].check_out > check_in}

\* a create query with lte / gte: the closed-interval test
MutCreateConflictQuery(table, roomId, check_in, check_out) ==
  {i \in DOMAIN table :
     /\ table[i].room_id = roomId
     /\ table[i].status # "cancelled"
     /\ table[i].check_in <= check_out
     /\ table[i].check_out >= check_in}

\* a create query that takes the bookings without a room for bookings of
\* every room
MutCreateConflictQueryUnassigned(table, roomId, check_in, check_out) ==
  {i \in DOMAIN table :
     /\ table[i].room_id \in {roomId, NULL}
     /\ table[i].status # "cancelled"
     /\ table[i].check_in < check_out
     /\ table[i].check_out > check_in}

\* the create branch of upsertBooking, one query per selected room
CreateConflictQuery(table, roomId, check_in, check_out) ==
  {i \in DOMAIN table :
     /\ table[i].room_id = roomId
     /\ table[i].status # "cancelled"
     /\ table[i].check_in < check_out
     /\ table[i].check_out > check_in}

\* for (const roomId of roomIds): stops at the first failed query or the
\* first room with a conflict.  fail = "read": the first query fails.
RECURSIVE CheckRooms(_, _, _, _, _)
\* a loop that returns after the first selected room
MutCheckRooms(table, roomIds, check_in, check_out, fail) ==
  IF roomIds = <<>> \/ Head(roomIds) = NULL THEN [outcome |-> "clear", queries |-> 0]
  ELSE IF fail = "read" THEN [outcome |-> "db_error", queries |-> 1]
  ELSE IF CreateConflictQuery(table, Head(roomIds), check_in, check_out) # {}
    THEN [outcome |-> "conflict", queries |-> 1]
  ELSE [outcome |-> "clear", queries |-> 1]

CheckRooms(table, roomIds, check_in, check_out, fail) ==
  IF roomIds = <<>> THEN [outcome |-> "clear", queries |-> 0]
  ELSE IF Head(roomIds) = NULL
    THEN CheckRooms(table, Tail(roomIds), check_in, check_out, fail)
  ELSE IF fail = "read" THEN [outcome |-> "db_error", queries |-> 1]
  ELSE IF CreateConflictQuery(table, Head(roomIds), check_in, check_out) # {}
    THEN [outcome |-> "conflict", queries |-> 1]
  ELSE LET rest == CheckRooms(table, Tail(roomIds), check_in, check_out, fail)
       IN  [outcome |-> rest.outcome, queries |-> rest.queries + 1]

\* the rooms named by the error the conflict loop sets: setError(`Room
\* ${room?.number || roomId} already has a booking ...`) and return, in the
\* first room whose query has rows
RECURSIVE ReportedRooms(_, _, _, _)
ReportedRooms(table, roomIds, check_in, check_out) ==
  IF roomIds = <<>> THEN {}
  ELSE IF Head(roomIds) # NULL
          /\ CreateConflictQuery(table, Head(roomIds), check_in, check_out) # {}
    THEN {Head(roomIds)}
  ELSE ReportedRooms(table, Tail(roomIds), check_in, check_out)

\* ---------------------------------------------------- upsertBooking ----
\* a payload that copies the draft's auto_release_at whatever the status
MutPayloadAutoRelease(d) == d.auto_release_at

\* auto_release_at of both payloads
PayloadAutoRelease(d) ==
  IF d.status = "tentative" /\ d.auto_release_at # NULL
    THEN d.auto_release_at ELSE NULL

Payload(d, roomId) ==
  [room_id |-> roomId, check_in |-> d.check_in, check_out |-> d.check_out,
   status |-> d.status, auto_release_at |-> PayloadAutoRelease(d)]

\* an insert that stores check_out a day early (a date shifted when it is
\* converted between time zones)
MutInsertRows(table, first, d, roomIds) ==
  [i \in DOMAIN table \cup (first..(first + Len(roomIds) - 1)) |->
     IF i \in DOMAIN table THEN table[i]
     ELSE [Payload(d, roomIds[i - first + 1]) EXCEPT !.check_out = d.check_out - 1]]

\* insert(payloads): one row per entry of roomIds, ids in order
InsertRows(table, first, d, roomIds) ==
  [i \in DOMAIN table \cup (first..(first + Len(roomIds) - 1)) |->
     IF i \in DOMAIN table THEN table[i]
     ELSE Payload(d, roomIds[i - first + 1])]

\* constraint check_dates check (check_out > check_in)
check_dates(row) == row.check_out > row.check_in

\* update(payload).eq("id", id): no row with that id, nothing changes
UpdateRow(table, id, row) ==
  [i \in DOMAIN table |-> IF i = id THEN row ELSE table[i]]

CreateLogRow == [action |-> "create", booking_id |-> NULL]
DeleteLogRow(id) == [action |-> "delete", booking_id |-> id]

RECURSIVE AddLogs(_, _, _)
AddLogs(logs, row, n) ==
  IF n = 0 THEN logs ELSE AddLogs(logs (+) SetToBag({row}), row, n - 1)

\* What one call of upsertBooking does with draft d when the database
\* holds table: the outcome, the number of conflict queries issued, and the
\* tables after it.  fail names the supabase call that returns an error:
\* "none", "read" (the first conflict query) or "write" (update / insert).
Done(outcome, queries, table, next, logs) ==
  [outcome |-> outcome, queries |-> queries, table |-> table,
   nextId |-> next, logs |-> logs]

UpsertEdit(d, table, next, logs, fail) ==
  LET roomId == IF d.room_ids # <<>> THEN d.room_ids[1] ELSE NULL
      asked == IF roomId # NULL THEN 1 ELSE 0
  IN  IF roomId # NULL /\ fail = "read"
        THEN Done("db_error", 1, table, next, logs)
      ELSE IF roomId # NULL
              /\ EditConflictQuery(table, roomId, d.check_in, d.check_out, d.id) # {}
        THEN Done("conflict", 1, table, next, logs)
      ELSE IF fail = "write" \/ ~check_dates(Payload(d, roomId))
        THEN Done("db_error", asked, table, next, logs)
      ELSE Done("updated", asked,
                UpdateRow(table, d.id, Payload(d, roomId)), next, logs)

\* const roomIds = bookingDraft.room_ids.length > 0 ? bookingDraft.room_ids : [null]
CreateRoomIds(d) == IF Len(d.room_ids) > 0 THEN d.room_ids ELSE <<NULL>>

\* an insert the database refuses when a new row overlaps a live stored
\* booking of its room
MutInsertBookings(d, table, next, logs, queries, fail) ==
  IF \/ fail = "write"
     \/ ~check_dates(Payload(d, NULL))
     \/ \E k \in 1..Len(CreateRoomIds(d)) :
          CreateConflictQuery(table, CreateRoomIds(d)[k], d.check_in, d.check_out) # {}
    THEN Done("db_error", queries, table, next, logs)
  ELSE Done("created", queries,
            InsertRows(table, next, d, CreateRoomIds(d)),
            next + Len(CreateRoomIds(d)),
            AddLogs(logs, CreateLogRow, Len(CreateRoomIds(d))))

\* supabase.from("bookings").insert(payloads), then the log rows
InsertBookings(d, table, next, logs, queries, fail) ==
  IF fail = "write" \/ ~check_dates(Payload(d, NULL))
    THEN Done("db_error", queries, table, next, logs)
  ELSE Done("created", queries,
            InsertRows(table, next, d, CreateRoomIds(d)),
            next + Len(CreateRoomIds(d)),
            AddLogs(logs, CreateLogRow, Len(CreateRoomIds(d))))

UpsertCreate(d, table, next, logs, fail) ==
  LET check == CheckRooms(table, CreateRoomIds(d), d.check_in, d.check_out, fail)
  IN  IF check.outcome # "clear"
        THEN Done(check.outcome, check.queries, table, next, logs)
      ELSE InsertBookings(d, table, next, logs, check.queries, fail)

\* a date test that lets check_in = check_out through
MutInvalidRange(d) == d.check_in > d.check_out

\* if (bookingDraft.check_in >= bookingDraft.check_out)
InvalidRange(d) == d.check_in >= d.check_out

upsertBooking(d, property, table, next, logs, fail) ==
  IF property = NULL
    THEN Done("no_property", 0, table, next, logs)
  ELSE IF d.guest_name = ""
    THEN Done("guest_required", 0, table, next, logs)
  ELSE IF d.check_in = EmptyDate \/ d.check_out = EmptyDate
    THEN Done("dates_required", 0, table, next, logs)
  ELSE IF InvalidRange(d)
    THEN Done("date_range", 0, table, next, logs)
  ELSE IF d.id # NULL
    THEN UpsertEdit(d, table, next, logs, fail)
  ELSE UpsertCreate(d, table, next, logs, fail)

\* a handler that clears the form before it knows the write succeeded
MutFormAfter(d, outcome) ==
  IF outcome \in {"created", "updated", "db_error"}
    THEN [bookingDraft |-> defaultBookingDraft, bookingModalOpen |-> FALSE]
  ELSE [bookingDraft |-> d, bookingModalOpen |-> TRUE]

\* the booking form after a call made with draft d in the open form:
\* setBookingDraft(defaultBookingDraft) and setBookingModalOpen(false)
\* stand after the update and after the insert only; every return before
\* them leaves both as they are
FormAfter(d, outcome) ==
  IF outcome \in {"created", "updated"}
    THEN [bookingDraft |-> defaultBookingDraft, bookingModalOpen |-> FALSE]
  ELSE [bookingDraft |-> d, bookingModalOpen |-> TRUE]

\* --------------------------------------------------------- drafts ------
Draft(id, guest, roomIds, ci, co, status, release) ==
  [id |-> id, guest_name |-> guest, room_ids |-> roomIds, check_in |-> ci,
   check_out |-> co, status |-> status, auto_release_at |-> release]

\* the room lists of the form: the multi-select of a new booking, the
\* single select of an edit
FormRoomLists(id) ==
  IF id = NULL THEN RoomLists ELSE {s \in RoomLists : Len(s) <= 1}

\* Every draft the form can hold for the listed ids.
DraftsOver(ids) ==
  {d \in [id : {NULL} \cup ids, guest_name : {"", "Ann"}, room_ids : RoomLists,
          check_in : {EmptyDate} \cup Days, check_out : {EmptyDate} \cup Days,
          status : bookingStatuses, auto_release_at : {NULL} \cup Deadlines] :
     d.room_ids \in FormRoomLists(d.id)}

DatesValid(d) ==
  d.check_in # EmptyDate /\ d.check_out # EmptyDate /\ d.check_in < d.check_out

\* status and auto-release of the drafts submitted: the payload reads
\* auto_release_at only when the status is tentative
StatusAndRelease ==
  {<<s, NULL>> : s \in bookingStatuses} \cup {<<"tentative", t>> : t \in Deadlines}

\* status and auto-release the form can hold: the Auto Release Date field
\* is shown for status tentative only, but the draft keeps its value when
\* the status is changed, and onEditBooking copies the booking's own
FormStatusAndRelease == bookingStatuses \X ({NULL} \cup Deadlines)

\* date pairs of the drafts submitted
DatePairs == ({EmptyDate} \cup Days) \X ({EmptyDate} \cup Days)
ValidDatePairs == {p \in DatePairs : p[1] # EmptyDate /\ p[2] # EmptyDate /\ p[1] < p[2]}

\* ----------------------------------------------------------- Init ------
\* the calendar as mounted: this month, the whole of it, nothing selected
InitCalendar ==
  /\ calendarMonth = ThisMonth
  /\ viewMode = "month"
  /\ halfIndex = 0
  /\ rangeSelection = EmptySelection
  /\ bookingModalOpen = FALSE
  /\ bookingDraft = defaultBookingDraft

Init ==
  /\ bookingsTable = <<>>
  /\ nextId = 1
  /\ bookingLogs = EmptyBag
  /\ now = 0
  /\ selectedPropertyId = NULL
  /\ bookings = <<>>
  /\ availabilityBookings = <<>>
  /\ calls = [c \in Calls |-> [pc |-> "idle", draft |-> defaultBookingDraft, queries |-> 0]]
  /\ propertiesTable = Properties
  /\ categoriesTable = Categories
  /\ roomsTable = [room \in Rooms |-> IF room = 1 THEN 1 ELSE NULL]
  /\ bookingStatusFilter = "all"
  /\ requests = <<>>
  /\ bookingToDelete = NULL
  /\ session = SignedIn
  /\ InitCalendar
  /\ timeZone = "utc"
  /\ bookingsPage = 1
  /\ bookingsCount = 0

\* refreshBookingsData(page): both lists reloaded, when a property is
\* selected
Refresh(table, page) ==
  IF selectedPropertyId = NULL
    THEN UNCHANGED <<bookings, availabilityBookings, pageVars>>
    ELSE /\ SetBookingsPage(BookingsPage(table, bookingStatusFilter, page))
         /\ availabilityBookings' = LoadedAvailability(table)

\* loadProperties selects the first property when none is selected; the
\* effects on selectedPropertyId then load both lists
LoadProperties ==
  /\ session # NULL
  /\ selectedPropertyId = NULL
  /\ propertiesTable # {}
  /\ selectedPropertyId' = CHOOSE p \in propertiesTable : TRUE
  /\ SetBookingsPage(BookingsPage(bookingsTable, bookingStatusFilter, 1))
  /\ availabilityBookings' = LoadedAvailability(bookingsTable)
  /\ UNCHANGED <<bookingsTable, nextId, bookingLogs, now, calls, otherExt>>

\* the whole handler for one draft and one failure choice
Upsert(d, fail) ==
  \E r \in {upsertBooking(d, selectedPropertyId, bookingsTable, nextId,
                          bookingLogs, fail)} :
      /\ r.nextId <= MaxBookings + 1
      /\ \A k \in DOMAIN d.room_ids : d.room_ids[k] \in DOMAIN roomsTable
      /\ bookingsTable' = r.table
      /\ nextId' = r.nextId
      /\ bookingLogs' = r.logs
      /\ IF r.outcome \in {"created", "updated"}
           THEN Refresh(r.table, 1)
           ELSE UNCHANGED <<bookings, availabilityBookings, pageVars>>
      /\ UNCHANGED <<now, selectedPropertyId, calls, otherExt>>

\* Save booking, for the drafts of the form.  A field the handler does not
\* read on the draft's path is left at its default value.
UpsertBooking ==
  \/ Upsert(defaultBookingDraft, "none")
  \/ \E id \in {NULL} \cup DOMAIN bookings, p \in DatePairs \ ValidDatePairs :
       Upsert(Draft(id, "Ann", <<>>, p[1], p[2], "reserved", NULL), "none")
  \/ \E id \in {NULL} \cup DOMAIN bookings, p \in ValidDatePairs :
       \E roomIds \in FormRoomLists(id), sr \in StatusAndRelease :
         Upsert(Draft(id, "Ann", roomIds, p[1], p[2], sr[1], sr[2]), "none")
  \/ \E id \in {NULL} \cup DOMAIN bookings, fail \in {"read", "write"} :
       Upsert(Draft(id, "Ann", <<1>>, 1, 2, "reserved", NULL), fail)

\* ----------------------------------------------- updateBookingStatus ---
\* update({ status }).eq("id", bookingId)
SetStatus(table, id, status) ==
  [i \in DOMAIN table |->
     IF i = id THEN [table[i] EXCEPT !.status = status] ELSE table[i]]

\* The buttons that call it: Confirm ("reserved") on a booking a list shows
\* as tentative, Release ("cancelled") on a tentative booking of the
\* tentative-holds list.
StatusButtons ==
  {<<id, "reserved">> :
      id \in {i \in DOMAIN bookings : bookings[i].status = "tentative"}
             \cup {i \in DOMAIN availabilityBookings :
                     availabilityBookings[i].status = "tentative"}}
  \cup {<<id, "cancelled">> :
      id \in {i \in DOMAIN bookings : bookings[i].status = "tentative"}}

UpdateBookingStatus ==
  \E b \in StatusButtons :
    /\ bookingsTable' = SetStatus(bookingsTable, b[1], b[2])
    /\ Refresh(bookingsTable', bookingsPage)
    /\ UNCHANGED <<nextId, bookingLogs, now, selectedPropertyId, calls, otherExt>>

\* ---------------------------------------------------- deleteBooking ----
\* nextPage = bookings.length === 1 && bookingsPage > 1 ? bookingsPage - 1
\*                                                       : bookingsPage
NextPageAfterDelete(list, page) ==
  IF Cardinality(DOMAIN list) = 1 /\ page > 1 THEN page - 1 ELSE page

DeleteBooking ==
  \E id \in DOMAIN bookings :
    /\ bookingsTable' = Restrict(bookingsTable, DOMAIN bookingsTable \ {id})
    /\ bookingLogs' = IF id \in DOMAIN bookings
                        THEN bookingLogs (+) SetToBag({DeleteLogRow(id)})
                        ELSE bookingLogs
    /\ Refresh(bookingsTable', NextPageAfterDelete(bookings, bookingsPage))
    /\ UNCHANGED <<nextId, now, selectedPropertyId, calls, otherExt>>

\* ------------------------------------------------------- the clock -----
Tick ==
  /\ now < MaxNow
  /\ now' = now + 1
  /\ UNCHANGED <<bookingsTable, nextId, bookingLogs, selectedPropertyId,
                 bookings, availabilityBookings, calls, ext>>

\* ---------------------------------------------- release_expired_holds --
\* a sweep that also takes the holds whose instant is now
MutExpiredHold(row, t) ==
  row.status = "tentative" /\ row.auto_release_at # NULL /\ row.auto_release_at <= t

\* a sweep that does not look at the status
MutExpiredHoldAnyStatus(row, t) == SqlLt(row.auto_release_at, t)

\* where status = 'tentative' and auto_release_at < now()
ExpiredHold(row, t) ==
  row.status = "tentative" /\ SqlLt(row.auto_release_at, t)

release_expired_holds(table, t) ==
  [i \in DOMAIN table |->
     IF ExpiredHold(table[i], t)
       THEN [table[i] EXCEPT !.status = "cancelled"] ELSE table[i]]

ReleaseExpiredHolds ==
  /\ bookingsTable' = release_expired_holds(bookingsTable, now)
  /\ UNCHANGED <<nextId, bookingLogs, now, selectedPropertyId,
                 bookings, availabilityBookings, calls, ext>>

\* ------------------------- deleteRoom, deleteCategory, deleteProperty --
\* .in("status", ["tentative", "reserved", "checked_in"])
ActiveStatuses == {"tentative", "reserved", "checked_in"}

\* a check that forgets the tentative holds
MutActiveBookingsOfRooms(table, roomIds) ==
  {i \in DOMAIN table :
     table[i].room_id \in roomIds /\ table[i].status \in {"reserved", "checked_in"}}

\* the bookings the check of a deletion selects for a set of rooms
ActiveBookingsOfRooms(table, roomIds) ==
  {i \in DOMAIN table :
     table[i].room_id \in roomIds /\ table[i].status \in ActiveStatuses}

\* bookings.room_id references rooms(id) on delete set null
RoomSetNull(table, roomId) ==
  [i \in DOMAIN table |->
     IF table[i].room_id = roomId THEN [table[i] EXCEPT !.room_id = NULL]
     ELSE table[i]]

\* rooms.category_id references room_categories(id) on delete set null
CategorySetNull(rooms, categoryId) ==
  [room \in DOMAIN rooms |-> IF rooms[room] = categoryId THEN NULL ELSE rooms[room]]

\* the result of a deletion: outcome and the four tables after it
Deleted(outcome, table, rooms, categories, properties) ==
  [outcome |-> outcome, table |-> table, rooms |-> rooms,
   categories |-> categories, properties |-> properties]

\* fail = "read": the check fails; fail = "write": the delete fails
deleteRoom(id, table, rooms, categories, properties, fail) ==
  IF fail = "read"
    THEN Deleted("db_error", table, rooms, categories, properties)
  ELSE IF ActiveBookingsOfRooms(table, {id}) # {}
    THEN Deleted("active_bookings", table, rooms, categories, properties)
  ELSE IF fail = "write"
    THEN Deleted("db_error", table, rooms, categories, properties)
  ELSE Deleted("removed", RoomSetNull(table, id),
               Restrict(rooms, DOMAIN rooms \ {id}), categories, properties)

deleteCategory(id, table, rooms, categories, properties, fail) ==
  LET roomsInCat == {room \in DOMAIN rooms : rooms[room] = id}
  IN  IF fail = "read"
        THEN Deleted("db_error", table, rooms, categories, properties)
      ELSE IF roomsInCat # {} /\ ActiveBookingsOfRooms(table, roomsInCat) # {}
        THEN Deleted("active_bookings", table, rooms, categories, properties)
      ELSE IF fail = "write"
        THEN Deleted("db_error", table, rooms, categories, properties)
      ELSE Deleted("removed", table, CategorySetNull(rooms, id),
                   categories \ {id}, properties)

\* every booking, room and category of the model belongs to the one
\* property; they reference it on delete cascade
deleteProperty(id, table, rooms, categories, properties, fail) ==
  IF fail = "read"
    THEN Deleted("db_error", table, rooms, categories, properties)
  ELSE IF {i \in DOMAIN table : table[i].status \in ActiveStatuses} # {}
    THEN Deleted("active_bookings", table, rooms, categories, properties)
  ELSE IF fail = "write"
    THEN Deleted("db_error", table, rooms, categories, properties)
  ELSE Deleted("removed", Restrict(table, {}), Restrict(rooms, {}), {},
               properties \ {id})

\* the tables after a deletion; loadPropertyData reloads the rooms and the
\* categories, which the model reads from the tables, and no bookings list
StoreDeleted(r) ==
  /\ bookingsTable' = r.table
  /\ roomsTable' = r.rooms
  /\ categoriesTable' = r.categories
  /\ propertiesTable' = r.properties

DeleteRoom ==
  /\ selectedPropertyId # NULL
  /\ \E id \in DOMAIN roomsTable, fail \in {"none", "read", "write"} :
       StoreDeleted(deleteRoom(id, bookingsTable, roomsTable, categoriesTable,
                               propertiesTable, fail))
  /\ UNCHANGED <<nextId, bookingLogs, now, selectedPropertyId, bookings,
                 availabilityBookings, calls, bookingStatusFilter, requests,
                 bookingToDelete, session, calendarVars, timeZone, pageVars>>

DeleteCategory ==
  /\ selectedPropertyId # NULL
  /\ \E id \in categoriesTable, fail \in {"none", "read", "write"} :
       StoreDeleted(deleteCategory(id, bookingsTable, roomsTable, categoriesTable,
                                   propertiesTable, fail))
  /\ UNCHANGED <<nextId, bookingLogs, now, selectedPropertyId, bookings,
                 availabilityBookings, calls, bookingStatusFilter, requests,
                 bookingToDelete, session, calendarVars, timeZone, pageVars>>

\* a removed property that was the selected one: resetAll()
DeleteProperty ==
  \E id \in propertiesTable, fail \in {"none", "read", "write"} :
    \E r \in {deleteProperty(id, bookingsTable, roomsTable, categoriesTable,
                             propertiesTable, fail)} :
      /\ StoreDeleted(r)
      /\ IF r.outcome = "removed" /\ id = selectedPropertyId
           THEN /\ selectedPropertyId' = NULL
                /\ bookings' = <<>>
                /\ availabilityBookings' = <<>>
                /\ bookingsCount' = 0
                /\ bookingsPage' = 1
           ELSE UNCHANGED <<selectedPropertyId, bookings, availabilityBookings,
                            pageVars>>
      /\ UNCHANGED <<nextId, bookingLogs, now, calls, bookingStatusFilter,
                     requests, bookingToDelete, session, calendarVars, timeZone>>

\* --------------------------------- the bookings list and its dialog ----
\* the status filters chosen in the model
Filters == {"all", "tentative"}

\* Save booking for a booking without a room: the drafts of the form with
\* no room selected and one fixed stay; the form is not open over the
\* delete dialog
UpsertUnassigned ==
  /\ bookingToDelete = NULL
  /\ \E status \in {"reserved", "tentative"} :
       Upsert(Draft(NULL, "Ann", <<>>, 1, 2, status, NULL), "none")

\* onFilterChange: the reload effect issues loadBookingsPage(1, { status })
\* and does not wait for it
SetBookingStatusFilter ==
  /\ selectedPropertyId # NULL
  /\ bookingToDelete = NULL
  /\ Len(requests) < MaxRequests
  /\ \E status \in Filters \ {bookingStatusFilter} :
       /\ bookingStatusFilter' = status
       /\ requests' = Append(requests, [status |-> status, page |-> 1])
  /\ UNCHANGED <<bookingsTable, nextId, bookingLogs, now, selectedPropertyId,
                 bookings, availabilityBookings, calls, adminVars, bookingToDelete,
                 session, calendarVars, timeZone, pageVars>>

\* a response arrives, of any request in flight: setBookings(...); the
\* session is read before the request is sent and not after it
LoadBookingsPageLands ==
  \E k \in DOMAIN requests :
    /\ SetBookingsPage(BookingsPage(bookingsTable, requests[k].status,
                                    requests[k].page))
    /\ requests' = SubSeq(requests, 1, k - 1) \o SubSeq(requests, k + 1, Len(requests))
    /\ UNCHANGED <<bookingsTable, nextId, bookingLogs, now, selectedPropertyId,
                   availabilityBookings, calls, adminVars, bookingStatusFilter,
                   bookingToDelete, session, calendarVars, timeZone>>

\* the delete button of a row: setBookingToDelete(booking)
HandleDeleteClick ==
  /\ session # NULL
  /\ bookingToDelete = NULL
  /\ \E id \in DOMAIN bookings : bookingToDelete' = id
  /\ UNCHANGED <<bookingsTable, nextId, bookingLogs, now, selectedPropertyId,
                 bookings, availabilityBookings, calls, adminVars,
                 bookingStatusFilter, requests, session, calendarVars, timeZone, pageVars>>

\* deleteBooking(id): the row is deleted; the log entry is written when
\* bookings.find(b => b.id === id) finds the booking in the loaded list
deleteBooking(id, list, table, logs) ==
  [table |-> Restrict(table, DOMAIN table \ {id}),
   logs |-> IF id \in DOMAIN list THEN logs (+) SetToBag({DeleteLogRow(id)})
            ELSE logs]

\* the dialog's Delete button: confirmDelete, then the whole of deleteBooking
ConfirmDelete ==
  /\ session # NULL
  /\ bookingToDelete # NULL
  /\ \E r \in {deleteBooking(bookingToDelete, bookings, bookingsTable, bookingLogs)} :
       /\ bookingsTable' = r.table
       /\ bookingLogs' = r.logs
       /\ Refresh(r.table, NextPageAfterDelete(bookings, bookingsPage))
  /\ bookingToDelete' = NULL
  /\ UNCHANGED <<nextId, now, selectedPropertyId, calls, adminVars,
                 bookingStatusFilter, requests, session, calendarVars, timeZone>>

\* resetAll(): the state of the dashboard that the model keeps
resetAll ==
  /\ selectedPropertyId' = NULL
  /\ bookings' = <<>>
  /\ availabilityBookings' = <<>>
  /\ bookingsCount' = 0
  /\ bookingsPage' = 1
  /\ calendarMonth' = ThisMonth

\* the auth listener called with no session: setSession(null), resetAll();
\* the requests in flight are not cancelled
SignOut ==
  /\ session # NULL
  /\ bookingToDelete = NULL
  /\ session' = NULL
  /\ resetAll
  /\ UNCHANGED <<bookingsTable, nextId, bookingLogs, now, calls, adminVars,
                 bookingStatusFilter, requests, bookingToDelete, viewMode,
                 halfIndex, rangeSelection, bookingModalOpen, bookingDraft,
                 timeZone>>

\* ------------------------------------------------- specifications ------
\* one client, one handler at a time, nothing else writing
NextClient ==
  \/ LoadProperties
  \/ UpsertBooking
  \/ UpdateBookingStatus
  \/ DeleteBooking

SpecClient == Init /\ [][NextClient]_vars

\* the same client with the clock running and the sweep run by the database
Next ==
  \/ LoadProperties
  \/ UpsertBooking
  \/ UpdateBookingStatus
  \/ DeleteBooking
  \/ Tick
  \/ ReleaseExpiredHolds

Spec == Init /\ [][Next]_vars

\* the client booking and setting up the property, one handler at a time
NextAdmin ==
  \/ LoadProperties
  \/ UpsertBooking
  \/ UpdateBookingStatus
  \/ DeleteRoom
  \/ DeleteCategory
  \/ DeleteProperty

SpecAdmin == Init /\ [][NextAdmin]_vars

\* the bookings list with its filter, its reloads and its delete dialog
NextList ==
  \/ LoadProperties
  \/ UpsertUnassigned
  \/ SetBookingStatusFilter
  \/ LoadBookingsPageLands
  \/ HandleDeleteClick
  \/ ConfirmDelete
  \/ SignOut

SpecList == Init /\ [][NextList]_vars

\* the availability calendar over a table of stays anywhere in the
\* calendar: the month shown is changed and its bookings are loaded
MonthRows ==
  {[check_in |-> ci, check_out |-> co, status |-> st, auto_release_at |-> NULL,
    room_id |-> 1] :
     ci \in CalendarDays, co \in CalendarDays, st \in {"reserved", "cancelled"}}

\* tables of no stay or one stay
MonthTables ==
  UNION {[1..n -> {row \in MonthRows : check_dates(row)}] : n \in 0..1}

InitMonth ==
  /\ bookingsTable \in MonthTables
  /\ nextId = Len(bookingsTable) + 1
  /\ bookingLogs = EmptyBag
  /\ now = 0
  /\ selectedPropertyId = CHOOSE p \in Properties : TRUE
  /\ bookings = bookingsTable
  /\ availabilityBookings = <<>>
  /\ calls = [c \in Calls |-> [pc |-> "idle", draft |-> defaultBookingDraft, queries |-> 0]]
  /\ propertiesTable = Properties
  /\ categoriesTable = Categories
  /\ roomsTable = [room \in Rooms |-> IF room = 1 THEN 1 ELSE NULL]
  /\ bookingStatusFilter = "all"
  /\ requests = <<>>
  /\ bookingToDelete = NULL
  /\ session = SignedIn
  /\ InitCalendar
  /\ timeZone \in TimeZones
  /\ bookingsPage = 1
  /\ bookingsCount = Len(bookingsTable)

\* the response of loadAvailabilityBookings(selectedPropertyId,
\* calendarMonth) arrives: setAvailabilityBookings(...)
LoadAvailabilityBookings ==
  /\ session # NULL
  /\ selectedPropertyId # NULL
  /\ availabilityBookings' = loadAvailabilityBookings(bookingsTable, calendarMonth,
                                                      timeZone)
  /\ UNCHANGED <<bookingsTable, nextId, bookingLogs, now, selectedPropertyId,
                 bookings, calls, ext>>

VisibleRangeNow == visibleRange(calendarMonth, viewMode, halfIndex)

\* a change of month, of view mode or of half, and the effect on
\* visibleRangeStartKey, which drops the selection when the first visible
\* instant is another one
ViewChange(month, mode, half) ==
  /\ session # NULL
  /\ ~bookingModalOpen
  /\ calendarMonth' = month
  /\ viewMode' = mode
  /\ halfIndex' = half
  /\ rangeSelection' = IF visibleRange(month, mode, half).start # VisibleRangeNow.start
                          THEN EmptySelection
                          ELSE rangeSelection
  /\ UNCHANGED <<bookingsTable, nextId, bookingLogs, now, selectedPropertyId,
                 bookings, availabilityBookings, calls, adminVars,
                 bookingStatusFilter, requests, bookingToDelete, session, timeZone, pageVars,
                 bookingModalOpen, bookingDraft>>

\* handleMonthChange(next): setHalfIndex(0); onMonthChange(normalized)
HandleMonthChange == \E next \in Months : ViewChange(next, viewMode, 0)

\* the "15 days" button: setViewMode("half"); setHalfIndex(0)
SetViewModeHalf == ViewChange(calendarMonth, "half", 0)

\* the "Full month" button: setViewMode("month")
SetViewModeMonth == ViewChange(calendarMonth, "month", halfIndex)

\* the buttons of the two halves: setHalfIndex(0), setHalfIndex(1)
SetHalfIndex ==
  /\ viewMode = "half"
  /\ \E half \in {0, 1} : ViewChange(calendarMonth, "half", half)

\* a click on the cell of a room and a visible day: the whole of
\* handleDayClick with its call of onAddBooking
HandleDayClick ==
  /\ session # NULL
  /\ ~bookingModalOpen
  /\ \E roomId \in DOMAIN roomsTable, k \in DOMAIN VisibleRangeNow.days :
       \E r \in {handleDayClick(roomId, VisibleRangeNow.days[k], rangeSelection)} :
         /\ rangeSelection' = r.selection
         /\ IF r.added # <<>>
              THEN /\ bookingDraft' = onAddBooking(r.added[1], r.added[2], r.added[3])
                   /\ bookingModalOpen' = TRUE
              ELSE UNCHANGED <<bookingDraft, bookingModalOpen>>
  /\ UNCHANGED <<bookingsTable, nextId, bookingLogs, now, selectedPropertyId,
                 bookings, availabilityBookings, calls, adminVars,
                 bookingStatusFilter, requests, bookingToDelete, session, timeZone, pageVars,
                 calendarMonth, viewMode, halfIndex>>

\* the "Clear selection" button
ClearRangeSelection ==
  /\ session # NULL
  /\ ~bookingModalOpen
  /\ rangeSelection.checkIn # NULL
  /\ rangeSelection' = EmptySelection
  /\ UNCHANGED <<bookingsTable, nextId, bookingLogs, now, selectedPropertyId,
                 bookings, availabilityBookings, calls, adminVars,
                 bookingStatusFilter, requests, bookingToDelete, session, timeZone, pageVars,
                 calendarMonth, viewMode, halfIndex, bookingModalOpen, bookingDraft>>

\* the form is closed: onOpenChange(false)
CloseBookingModal ==
  /\ bookingModalOpen
  /\ bookingModalOpen' = FALSE
  /\ bookingDraft' = defaultBookingDraft
  /\ UNCHANGED <<bookingsTable, nextId, bookingLogs, now, selectedPropertyId,
                 bookings, availabilityBookings, calls, adminVars,
                 bookingStatusFilter, requests, bookingToDelete, session, timeZone, pageVars,
                 calendarMonth, viewMode, halfIndex, rangeSelection>>

\* the calendar over a table of stays: months and views are changed and
\* the bookings of the month shown arrive
NextMonth ==
  \/ LoadAvailabilityBookings
  \/ HandleMonthChange
  \/ SetViewModeHalf
  \/ SetViewModeMonth
  \/ SetHalfIndex

SpecMonth == InitMonth /\ [][NextMonth]_vars

\* the cells of the calendar clicked, over an empty table
NextCalendar ==
  \/ LoadProperties
  \/ HandleDayClick
  \/ ClearRangeSelection
  \/ CloseBookingModal
  \/ HandleMonthChange
  \/ SetViewModeHalf
  \/ SetViewModeMonth
  \/ SetHalfIndex

SpecCalendar == Init /\ [][NextCalendar]_vars

\* ------------------------------------------- the pages of the list ----
\* handleBookingsPageChange(page): the pages it loads, <<page>>, or none,
\* <<>>, when it returns before loading
MutHandleBookingsPageChange(page, count) ==
  LET maxPages == IF count > 0
                    THEN (count + BOOKINGS_PAGE_SIZE - 1) \div BOOKINGS_PAGE_SIZE
                    ELSE 0
  IN  IF maxPages > 0 /\ page > maxPages THEN <<>> ELSE <<page>>

handleBookingsPageChange(page, count) ==
  LET maxPages == IF count > 0
                    THEN (count + BOOKINGS_PAGE_SIZE - 1) \div BOOKINGS_PAGE_SIZE
                    ELSE 0
  IN  IF page < 1 \/ (maxPages > 0 /\ page > maxPages) THEN <<>> ELSE <<page>>

\* the pages asked for: from one below the first to one above the last
\* page a full table has
PageInputs == 0..((MaxStored + BOOKINGS_PAGE_SIZE - 1) \div BOOKINGS_PAGE_SIZE + 1)

\* the row every stored booking of the paged list has
StoredRow ==
  [check_in |-> 1, check_out |-> 2, status |-> "reserved", auto_release_at |-> NULL,
   room_id |-> NULL]

\* the list over a table of up to MaxStored bookings, its first page loaded
InitPages ==
  /\ \E n \in 0..MaxStored : bookingsTable = [i \in 1..n |-> StoredRow]
  /\ nextId = Len(bookingsTable) + 1
  /\ bookingLogs = EmptyBag
  /\ now = 0
  /\ selectedPropertyId = CHOOSE p \in Properties : TRUE
  /\ bookings = BookingsPage(bookingsTable, "all", 1).bookings
  /\ bookingsCount = BookingsPage(bookingsTable, "all", 1).count
  /\ bookingsPage = 1
  /\ availabilityBookings = LoadedAvailability(bookingsTable)
  /\ calls = [c \in Calls |-> [pc |-> "idle", draft |-> defaultBookingDraft, queries |-> 0]]
  /\ propertiesTable = Properties
  /\ categoriesTable = Categories
  /\ roomsTable = [room \in Rooms |-> IF room = 1 THEN 1 ELSE NULL]
  /\ bookingStatusFilter = "all"
  /\ requests = <<>>
  /\ bookingToDelete = NULL
  /\ session = SignedIn
  /\ InitCalendar
  /\ timeZone = "utc"

\* a page button: handleBookingsPageChange(page) and the response of the
\* load it issues
HandleBookingsPageChange ==
  \E page \in PageInputs :
    \E loads \in {handleBookingsPageChange(page, bookingsCount)} :
      IF loads = <<>>
        THEN UNCHANGED vars
        ELSE /\ session # NULL
             /\ selectedPropertyId # NULL
             /\ SetBookingsPage(BookingsPage(bookingsTable, bookingStatusFilter,
                                             loads[1]))
             /\ UNCHANGED <<bookingsTable, nextId, bookingLogs, now,
                            selectedPropertyId, availabilityBookings, calls, otherExt>>

\* the delete dialog of the last booking stored, when the page shows it,
\* confirmed: the whole of deleteBooking
DeleteLastBooking ==
  /\ session # NULL
  /\ \E id \in DOMAIN bookings :
       /\ \A j \in DOMAIN bookingsTable : j <= id
       /\ \E r \in {deleteBooking(id, bookings, bookingsTable, bookingLogs)} :
            /\ bookingsTable' = r.table
            /\ bookingLogs' = r.logs
            /\ Refresh(r.table, NextPageAfterDelete(bookings, bookingsPage))
  /\ UNCHANGED <<nextId, now, selectedPropertyId, calls, otherExt>>

NextPages ==
  \/ HandleBookingsPageChange
  \/ DeleteLastBooking

SpecPages == InitPages /\ [][NextPages]_vars

\* --------------------------------------- upsertBooking, call by call ----
\* A creation as the calls of it that overlap in time run it: the handler
\* awaits its conflict queries, then awaits the insert, and other calls
\* (another client, or Save pressed again before the first call returned)
\* run in between.  A call keeps the draft it was started with.
UpsertCheck(c) ==
  /\ selectedPropertyId # NULL
  /\ calls[c].pc = "idle"
  /\ \E roomIds \in RoomLists, p \in ValidDatePairs, sr \in StatusAndRelease :
       \E d \in {Draft(NULL, "Ann", roomIds, p[1], p[2], sr[1], sr[2])} :
         \E check \in {CheckRooms(bookingsTable, CreateRoomIds(d), d.check_in,
                                  d.check_out, "none")} :
           calls' = [calls EXCEPT ![c] =
                       [pc |-> IF check.outcome = "clear" THEN "checked"
                               ELSE check.outcome,
                        draft |-> d, queries |-> check.queries]]
  /\ UNCHANGED <<bookingsTable, nextId, bookingLogs, now, selectedPropertyId,
                 bookings, availabilityBookings, ext>>

UpsertWrite(c) ==
  /\ calls[c].pc = "checked"
  /\ \E r \in {InsertBookings(calls[c].draft, bookingsTable, nextId, bookingLogs,
                              calls[c].queries, "none")} :
       /\ r.nextId <= MaxBookings + 1
       /\ bookingsTable' = r.table
       /\ nextId' = r.nextId
       /\ bookingLogs' = r.logs
       /\ calls' = [calls EXCEPT ![c].pc = r.outcome]
       /\ Refresh(r.table, 1)
  /\ UNCHANGED <<now, selectedPropertyId, otherExt>>

NextRace ==
  \/ LoadProperties
  \/ \E c \in Calls : UpsertCheck(c)
  \/ \E c \in Calls : UpsertWrite(c)

SpecRace == Init /\ [][NextRace]_vars

\* what the application itself does, with the clock running on: nothing in
\* the application or the schema calls release_expired_holds
NextApp ==
  \/ LoadProperties
  \/ UpsertBooking
  \/ UpdateBookingStatus
  \/ DeleteBooking
  \/ Tick

SpecLive == Init /\ [][NextApp]_vars /\ WF_vars(Tick)

\* ------------------------------------------------------- occupancy -----
\* date-fns isWithinInterval(day, { start, end }), both ends included
isWithinInterval(day, start, end) == start <= day /\ day <= end

\* AvailabilityView: the bookings one day's occupied count is the length of
\* (stats.occupiedToday, the monthly sum, visibleOccupancyPercents)
AvailabilityOccupied(list, day) ==
  {i \in DOMAIN list :
     /\ list[i].status = "checked_in" \/ list[i].status = "reserved"
     /\ isWithinInterval(day, list[i].check_in, list[i].check_out - 1)}

\* dashboard: activeBookings, and the bookings counted for one day
\* (stats.activeStays, occupancyData)
activeBookings(list) == {i \in DOMAIN list : list[i].status # "cancelled"}

DashboardOccupied(list, day) ==
  {i \in activeBookings(list) :
     isWithinInterval(day, list[i].check_in, list[i].check_out - 1)}

\* what JavaScript's n / 0 gives and Math.round keeps: NaN or Infinity
NotFinite == -1

\* a percentage computed without looking at the divisor
MutRoundPercent(n, total) ==
  IF total = 0 THEN NotFinite ELSE (200 * n + total) \div (2 * total)

\* Math.round((n / total) * 100), reached only behind a test of total
RoundPercent(n, total) == (200 * n + total) \div (2 * total)

\* AvailabilityView stats.occupied / stats.dailyOccupancy for today = day
occupiedToday(list, day) == Cardinality(AvailabilityOccupied(list, day))

\* a daily rate that divides whatever totalRooms is
MutDailyOccupancy(list, totalRooms, day) ==
  MutRoundPercent(occupiedToday(list, day), totalRooms)

dailyOccupancy(list, totalRooms, day) ==
  IF totalRooms > 0 THEN RoundPercent(occupiedToday(list, day), totalRooms) ELSE 0

\* daysInMonth.forEach(day => totalOccupiedDays += occ)
RECURSIVE totalOccupiedDays(_, _)
totalOccupiedDays(list, lastDay) ==
  IF lastDay = 0 THEN 0
  ELSE totalOccupiedDays(list, lastDay - 1) + occupiedToday(list, lastDay)

\* stats.monthlyOccupancy over the month 1..daysCount
monthlyOccupancy(list, totalRooms, daysCount) ==
  IF totalRooms * daysCount > 0
    THEN RoundPercent(totalOccupiedDays(list, daysCount), totalRooms * daysCount)
  ELSE 0

\* one entry of visibleOccupancyPercents
visibleOccupancyPercents(list, totalRooms, day) ==
  IF totalRooms = 0 THEN 0
  ELSE RoundPercent(occupiedToday(list, day), totalRooms)

\* dashboard stats.activeStays and stats.occupancyRate for today = day
activeStays(list, day) == Cardinality(DashboardOccupied(list, day))

occupancyRate(list, totalRooms, day) ==
  IF totalRooms # 0 THEN RoundPercent(activeStays(list, day), totalRooms) ELSE 0

\* ======================================================== the claims ====
\* the stay intervals of two rows intersect, as half-open intervals
Overlap(a, b) == a.check_in < b.check_out /\ b.check_in < a.check_out

\* the drafts of a creation that passes the validation of the form
NewDraft(roomIds, p, sr) == Draft(NULL, "Ann", roomIds, p[1], p[2], sr[1], sr[2])

\* the call of the handler on draft d in the current state
Call(d, fail) ==
  upsertBooking(d, selectedPropertyId, bookingsTable, nextId, bookingLogs, fail)

\* some non-cancelled stored booking of room intersects [ci, co)
Blocked(room, ci, co) ==
  \E i \in DOMAIN bookingsTable :
    /\ bookingsTable[i].room_id = room
    /\ bookingsTable[i].status # "cancelled"
    /\ bookingsTable[i].check_in < co
    /\ bookingsTable[i].check_out > ci

\* C1: with one client issuing upsertBooking, updateBookingStatus and
\* deleteBooking one call at a time, no two stored bookings of the same
\* room, both not cancelled, have overlapping stay intervals.
NoOverlappingBookings ==
  \A i, j \in DOMAIN bookingsTable :
    ( /\ i # j
      /\ bookingsTable[i].room_id # NULL
      /\ bookingsTable[i].room_id = bookingsTable[j].room_id
      /\ bookingsTable[i].status # "cancelled"
      /\ bookingsTable[j].status # "cancelled" )
    => ~Overlap(bookingsTable[i], bookingsTable[j])

\* two live bookings share a room, back to back, one of them confirmed from
\* a hold or moved there by an edit or a creation
WitnessSameRoomNeighbours ==
  \E i, j \in DOMAIN bookingsTable :
    /\ i # j
    /\ bookingsTable[i].room_id # NULL
    /\ bookingsTable[i].room_id = bookingsTable[j].room_id
    /\ bookingsTable[i].status = "reserved"
    /\ bookingsTable[j].status = "checked_in"
    /\ bookingsTable[i].check_out = bookingsTable[j].check_in

\* C3: a creation for room lists and dates [ci, co), co > ci, is rejected as
\* a conflict exactly when some selected room holds a non-cancelled booking
\* with check_in < co and check_out > ci, and is stored otherwise; a
\* candidate that only touches an existing stay at either end is stored.
ConflictIffOverlap ==
  selectedPropertyId # NULL =>
    \A roomIds \in RoomLists \ {<<>>}, p \in ValidDatePairs, sr \in StatusAndRelease :
      LET r == Call(NewDraft(roomIds, p, sr), "none")
          blocked == \E k \in 1..Len(roomIds) : Blocked(roomIds[k], p[1], p[2])
      IN  /\ r.outcome = "conflict" <=> blocked
          /\ r.outcome = "created" <=> ~blocked

\* a room holds a live booking and the stay right after it, stored by a
\* later call; a stay reaching into the first is rejected
WitnessAdjacentAccepted ==
  /\ selectedPropertyId # NULL
  /\ \E i, j \in DOMAIN bookingsTable :
       /\ j > i
       /\ bookingsTable[i].room_id # NULL
       /\ bookingsTable[j].room_id = bookingsTable[i].room_id
       /\ bookingsTable[i].status # "cancelled"
       /\ bookingsTable[j].status # "cancelled"
       /\ bookingsTable[i].check_in = 1 /\ bookingsTable[i].check_out = 2
       /\ bookingsTable[j].check_in = 2 /\ bookingsTable[j].check_out = 3
       /\ Call(NewDraft(<<bookingsTable[i].room_id>>, <<1, 3>>, <<"reserved", NULL>>),
               "none").outcome = "conflict"

\* C4: a creation for several rooms stores nothing when a selected room has
\* a conflicting booking or a supabase call fails, and otherwise stores
\* exactly one row per selected room, all with the dates and the status of
\* the draft, and leaves the rows already stored as they are.
GroupAllOrNothing ==
  selectedPropertyId # NULL =>
    \A roomIds \in RoomLists \ {<<>>}, p \in ValidDatePairs, sr \in StatusAndRelease :
      \A fail \in {"none", "read", "write"} :
        LET r == Call(NewDraft(roomIds, p, sr), fail)
            blocked == \E k \in 1..Len(roomIds) : Blocked(roomIds[k], p[1], p[2])
            added == DOMAIN r.table \ DOMAIN bookingsTable
        IN  /\ DOMAIN bookingsTable \subseteq DOMAIN r.table
            /\ \A i \in DOMAIN bookingsTable : r.table[i] = bookingsTable[i]
            /\ (blocked \/ fail # "none") => added = {}
            /\ (~blocked /\ fail = "none") =>
                 /\ Cardinality(added) = Len(roomIds)
                 /\ \A k \in 1..Len(roomIds) :
                      Cardinality({i \in added : r.table[i].room_id = roomIds[k]}) = 1
                 /\ \A i \in added :
                      /\ r.table[i].check_in = p[1]
                      /\ r.table[i].check_out = p[2]
                      /\ r.table[i].status = sr[1]

\* a group of two was stored by one call (neighbouring ids, different rooms,
\* same dates and status) and a second group for overlapping dates is
\* refused as a whole although only one of its rooms is taken
WitnessGroupStored ==
  /\ selectedPropertyId # NULL
  /\ \E i \in DOMAIN bookingsTable :
       /\ i + 1 \in DOMAIN bookingsTable
       /\ bookingsTable[i].room_id # NULL /\ bookingsTable[i + 1].room_id # NULL
       /\ bookingsTable[i].room_id # bookingsTable[i + 1].room_id
       /\ bookingsTable[i].check_in = bookingsTable[i + 1].check_in
       /\ bookingsTable[i].check_out = bookingsTable[i + 1].check_out
       /\ bookingsTable[i].status = "reserved"
       /\ bookingsTable[i + 1].status = "cancelled"
       /\ Call(NewDraft(<<bookingsTable[i + 1].room_id, bookingsTable[i].room_id>>,
                        <<bookingsTable[i].check_in, bookingsTable[i].check_out>>,
                        <<"reserved", NULL>>), "none").outcome = "conflict"

\* the room an edit draft or a one-room draft asks for, NULL for none
DraftRoom(d) == IF d.room_ids # <<>> THEN d.room_ids[1] ELSE NULL

\* the drafts of the form that pass its validation: creations, and edits of
\* the listed bookings
ValidDrafts ==
  {Draft(id, "Ann", roomIds, p[1], p[2], sr[1], sr[2]) :
     id \in {NULL} \cup DOMAIN bookings, roomIds \in RoomLists,
     p \in ValidDatePairs, sr \in StatusAndRelease}
  \cap DraftsOver(DOMAIN bookings)

\* the stored bookings draft d competes with: those of a room it selects,
\* other than the booking it edits, whose stay intersects its dates
Rivals(d) ==
  {i \in DOMAIN bookingsTable :
     /\ \E k \in 1..Len(d.room_ids) : bookingsTable[i].room_id = d.room_ids[k]
     /\ i # d.id
     /\ bookingsTable[i].check_in < d.check_out
     /\ bookingsTable[i].check_out > d.check_in}

\* C5: a cancelled booking never makes a creation or an edit on its room a
\* conflict, and no occupancy figure counts one: not the availability
\* view's daily counts, not the dashboard's.
CancelledNeverCounts ==
  /\ selectedPropertyId # NULL =>
       \A d \in ValidDrafts :
         (\A i \in Rivals(d) : bookingsTable[i].status = "cancelled")
           => Call(d, "none").outcome # "conflict"
  /\ \A day \in Days :
       /\ \A i \in AvailabilityOccupied(availabilityBookings, day) :
            /\ availabilityBookings[i].status # "cancelled"
            /\ i \in DOMAIN bookingsTable => bookingsTable[i].status # "cancelled"
       /\ \A i \in AvailabilityOccupied(bookingsTable, day) :
            bookingsTable[i].status # "cancelled"
       /\ \A i \in DashboardOccupied(bookingsTable, day) :
            bookingsTable[i].status # "cancelled"

\* a cancelled booking and a live one stored after it share room and day
WitnessCancelledUnderLive ==
  \E i, j \in DOMAIN bookingsTable :
    /\ i < j
    /\ bookingsTable[i].room_id # NULL
    /\ bookingsTable[i].room_id = bookingsTable[j].room_id
    /\ bookingsTable[i].status = "cancelled"
    /\ bookingsTable[j].status = "reserved"
    /\ Overlap(bookingsTable[i], bookingsTable[j])
    /\ j \in DOMAIN availabilityBookings
    /\ \E day \in Days :
         /\ isWithinInterval(day, bookingsTable[i].check_in, bookingsTable[i].check_out - 1)
         /\ AvailabilityOccupied(availabilityBookings, day) = {j}
         /\ DashboardOccupied(bookingsTable, day) = {j}

\* C6: upsertBooking with both dates given and check_out <= check_in, for a
\* creation or an edit, whatever is stored and whichever supabase call
\* would fail, ends with the date-range error having issued no conflict
\* query and written nothing: bookings, ids and log are as before.
InvalidRangeRejectedFirst ==
  selectedPropertyId # NULL =>
    \A id \in {NULL} \cup DOMAIN bookings, roomIds \in RoomLists,
       p \in (Days \X Days) \ ValidDatePairs, sr \in StatusAndRelease,
       fail \in {"none", "read", "write"} :
      roomIds \in FormRoomLists(id) =>
        LET r == Call(Draft(id, "Ann", roomIds, p[1], p[2], sr[1], sr[2]), fail)
        IN  /\ r.outcome = "date_range"
            /\ r.queries = 0
            /\ r.table = bookingsTable
            /\ r.nextId = nextId
            /\ r.logs = bookingLogs

\* bookings are stored and listed, and a stay with check_in = check_out on
\* the edit of one, and a stay ending before it starts on a new booking,
\* are both refused
WitnessInvalidRange ==
  /\ selectedPropertyId # NULL
  /\ \E i \in DOMAIN bookings :
       /\ i \in DOMAIN bookingsTable
       /\ bookingsTable[i].room_id = 1
       /\ bookingsTable[i].check_in = 1
       /\ bookingsTable[i].status = "reserved"
       /\ Call(Draft(i, "Ann", <<1>>, 2, 2, "reserved", NULL), "none").outcome
            = "date_range"
       /\ Call(Draft(NULL, "Ann", <<2>>, 3, 2, "reserved", NULL), "none").outcome
            = "date_range"

\* a hold whose release instant has passed
Expired(row, t) ==
  row.status = "tentative" /\ row.auto_release_at # NULL /\ row.auto_release_at < t

\* C7: a tentative booking whose auto_release_at has passed does not make a
\* creation or an edit for overlapping dates in its room a conflict, also
\* before the sweep has cancelled it.
ExpiredHoldsDoNotBlock ==
  selectedPropertyId # NULL =>
    \A d \in ValidDrafts :
      (\A i \in Rivals(d) :
         bookingsTable[i].status = "cancelled" \/ Expired(bookingsTable[i], now))
        => Call(d, "none").outcome # "conflict"

\* C9: release_expired_holds run at an instant t cancels exactly the stored
\* bookings that are tentative with a non-null auto_release_at earlier than
\* t; every other row, and every other column of the rows it cancels, is as
\* before, and no row is added or removed.
SweepCancelsExactlyExpired ==
  \A t \in Instants :
    LET after == release_expired_holds(bookingsTable, t)
    IN  /\ DOMAIN after = DOMAIN bookingsTable
        /\ \A i \in DOMAIN bookingsTable :
             IF Expired(bookingsTable[i], t)
               THEN after[i] = [bookingsTable[i] EXCEPT !.status = "cancelled"]
               ELSE after[i] = bookingsTable[i]

\* after a sweep: a hold past its instant is cancelled, its release instant
\* still stored, beside a hold without an instant that is still tentative
WitnessSwept ==
  \E i, j \in DOMAIN bookingsTable :
    /\ bookingsTable[i].status = "cancelled"
    /\ bookingsTable[i].auto_release_at # NULL
    /\ bookingsTable[i].auto_release_at < now
    /\ bookingsTable[j].status = "tentative"
    /\ bookingsTable[j].auto_release_at = NULL
    /\ bookings # bookingsTable

\* the transition table of the booking status
Transitions ==
  {<<"tentative", "reserved">>, <<"tentative", "cancelled">>,
   <<"reserved", "checked_in">>, <<"reserved", "cancelled">>,
   <<"checked_in", "checked_out">>}

\* C10: every change of a stored booking's status is one of tentative to
\* reserved or cancelled, reserved to checked_in or cancelled, checked_in
\* to checked_out; checked_out and cancelled are never left.
StatusFollowsTransitions ==
  [][\A i \in DOMAIN bookingsTable \cap DOMAIN bookingsTable' :
       bookingsTable[i].status # bookingsTable'[i].status
         => <<bookingsTable[i].status, bookingsTable'[i].status>> \in Transitions]_vars

\* C2: the insert of a creation whose conflict queries found nothing is not
\* checked again by the database: it stores one row per room of the draft
\* whatever has been stored since the queries ran, so two creations for the
\* same room and overlapping dates whose queries both ran before either
\* insert are both stored.
InsertIsUnconstrained ==
  \A c \in Calls :
    calls[c].pc = "checked" =>
      LET d == calls[c].draft
          r == InsertBookings(d, bookingsTable, nextId, bookingLogs,
                              calls[c].queries, "none")
      IN  /\ r.outcome = "created"
          /\ \A k \in 1..Len(CreateRoomIds(d)) :
               \E i \in DOMAIN r.table \ DOMAIN bookingsTable :
                 /\ r.table[i].room_id = CreateRoomIds(d)[k]
                 /\ r.table[i].check_in = d.check_in
                 /\ r.table[i].check_out = d.check_out
                 /\ r.table[i].status = d.status

\* both calls have stored their booking: two live bookings of one room with
\* overlapping stays
WitnessRaceOverlap ==
  /\ \A c \in Calls : calls[c].pc = "created"
  /\ \E i, j \in DOMAIN bookingsTable :
       /\ i # j
       /\ bookingsTable[i].room_id # NULL
       /\ bookingsTable[i].room_id = bookingsTable[j].room_id
       /\ bookingsTable[i].status # "cancelled"
       /\ bookingsTable[j].status # "cancelled"
       /\ Overlap(bookingsTable[i], bookingsTable[j])

\* C8: a tentative booking with an auto_release_at that has passed does not
\* stay tentative for ever: it is cancelled (or confirmed, edited or
\* deleted before that).
ExpiredHoldsEventuallyReleased ==
  \A i \in BookingIds :
    (i \in DOMAIN bookingsTable /\ Expired(bookingsTable[i], now))
      ~> (i \notin DOMAIN bookingsTable \/ bookingsTable[i].status # "tentative")

\* C11: when a creation is rejected as a conflict, the error names every
\* selected room that has a conflicting booking, not only the first one
\* the loop met.
EveryConflictReported ==
  selectedPropertyId # NULL =>
    \A roomIds \in RoomLists, p \in ValidDatePairs :
      LET d == NewDraft(roomIds, p, <<"reserved", NULL>>)
      IN  Call(d, "none").outcome = "conflict" =>
            ReportedRooms(bookingsTable, CreateRoomIds(d), d.check_in, d.check_out)
              = {room \in Rooms :
                   /\ \E k \in 1..Len(roomIds) : roomIds[k] = room
                   /\ Blocked(room, d.check_in, d.check_out)}

\* the rooms of the roster with a booking of the list, in one of the given
\* statuses, whose stay [check_in, check_out) holds the day
RoomsOccupied(list, statuses, day) ==
  {room \in Rooms :
     \E i \in DOMAIN list :
       /\ list[i].room_id = room
       /\ list[i].status \in statuses
       /\ list[i].check_in <= day
       /\ day < list[i].check_out}

\* C12: on every day the occupied count of the availability view is the
\* number of rooms with an assigned booking that is checked_in or reserved
\* and has check_in <= day < check_out: a room counts once and a booking
\* without a room does not count.
AvailabilityCountsRooms ==
  \A day \in Days :
    occupiedToday(availabilityBookings, day)
      = Cardinality(RoomsOccupied(availabilityBookings, {"checked_in", "reserved"}, day))

\* C13: with zero rooms every occupancy rate is 0 and nothing is divided by
\* zero, whatever bookings are loaded: the availability view's daily and
\* monthly rates, each footer percentage, and the dashboard's rate.
ZeroRoomsRateZero ==
  /\ monthlyOccupancy(availabilityBookings, 0, MaxDay) = 0
  /\ \A day \in Days :
       /\ dailyOccupancy(availabilityBookings, 0, day) = 0
       /\ visibleOccupancyPercents(availabilityBookings, 0, day) = 0
       /\ occupancyRate(bookingsTable, 0, day) = 0

\* a booking is counted on a day, so that the rates of a one-room roster
\* are 100, and the rates of the empty roster are 0
WitnessZeroRooms ==
  \E day \in Days :
    /\ occupiedToday(availabilityBookings, day) = 1
    /\ activeStays(bookingsTable, day) = 1
    /\ dailyOccupancy(availabilityBookings, 1, day) = 100
    /\ occupancyRate(bookingsTable, 1, day) = 100
    /\ monthlyOccupancy(availabilityBookings, 1, MaxDay) > 0
    /\ dailyOccupancy(availabilityBookings, 0, day) = 0
    /\ occupancyRate(bookingsTable, 0, day) = 0

\* C14: on every day the dashboard's count is the number of rooms with a
\* non-cancelled assigned booking whose stay holds the day, and these are
\* the rooms the availability view counts for the same bookings.
DashboardCountsRoomsLikeAvailability ==
  \A day \in Days :
    /\ activeStays(bookingsTable, day)
         = Cardinality(RoomsOccupied(bookingsTable, bookingStatuses \ {"cancelled"}, day))
    /\ {bookingsTable[i].room_id : i \in DashboardOccupied(bookingsTable, day)}
         = {bookingsTable[i].room_id :
              i \in AvailabilityOccupied(LoadedAvailability(bookingsTable), day)}

\* C15: the edit of a listed booking, for any room chosen and any dates
\* with check_out > check_in, is rejected as a conflict exactly when a
\* non-cancelled booking other than the edited one has the chosen room and
\* a stay overlapping the new dates: the edited booking's own stored stay
\* never rejects it, re-saved unchanged or with dates moved inside it.
EditExcludesItself ==
  selectedPropertyId # NULL =>
    \A id \in DOMAIN bookings, room \in Rooms, p \in ValidDatePairs,
       sr \in StatusAndRelease :
      (Call(Draft(id, "Ann", <<room>>, p[1], p[2], sr[1], sr[2]), "none").outcome
         = "conflict")
        <=> \E j \in DOMAIN bookingsTable :
              /\ j # id
              /\ bookingsTable[j].room_id = room
              /\ bookingsTable[j].status # "cancelled"
              /\ bookingsTable[j].check_in < p[2]
              /\ bookingsTable[j].check_out > p[1]

\* a two-day booking of room 1 beside a booking of room 2: re-saved
\* unchanged or shortened inside its own stay it is updated, moved to
\* room 2 it is rejected
WitnessEditOwnStay ==
  /\ selectedPropertyId # NULL
  /\ \E i \in DOMAIN bookings, j \in DOMAIN bookingsTable :
       /\ i \in DOMAIN bookingsTable
       /\ bookingsTable[i].room_id = 1
       /\ bookingsTable[i].check_in = 1
       /\ bookingsTable[i].check_out = 3
       /\ bookingsTable[i].status = "reserved"
       /\ bookingsTable[j].room_id = 2
       /\ bookingsTable[j].status = "reserved"
       /\ bookingsTable[j].check_in = 1
       /\ Call(Draft(i, "Ann", <<1>>, 1, 3, "reserved", NULL), "none").outcome = "updated"
       /\ Call(Draft(i, "Ann", <<1>>, 2, 3, "reserved", NULL), "none").outcome = "updated"
       /\ Call(Draft(i, "Ann", <<2>>, 1, 3, "reserved", NULL), "none").outcome = "conflict"

\* C16: every stored booking has check_out > check_in, after any sequence
\* of creations, edits, status updates, deletions and release sweeps.
StoredDatesOrdered ==
  \A i \in DOMAIN bookingsTable :
    bookingsTable[i].check_out > bookingsTable[i].check_in

\* a one-day stay is stored beside a two-day hold that a sweep has cancelled
WitnessStoredStays ==
  \E i, j \in DOMAIN bookingsTable :
    /\ bookingsTable[i].check_out = bookingsTable[i].check_in + 1
    /\ bookingsTable[i].status # "cancelled"
    /\ bookingsTable[j].check_out = bookingsTable[j].check_in + 2
    /\ bookingsTable[j].status = "cancelled"
    /\ bookingsTable[j].auto_release_at # NULL

\* C17 as stated: a stored booking whose status is not tentative has a
\* null auto_release_at.
NonTentativeHasNoRelease ==
  \A i \in DOMAIN bookingsTable :
    bookingsTable[i].status # "tentative" => bookingsTable[i].auto_release_at = NULL

\* C17, amended: a row written by upsertBooking (inserted, or the row of an
\* edit) has a non-null auto_release_at only with status tentative, whatever
\* the draft holds; updateBookingStatus writes the status alone, so a
\* stored non-null auto_release_at goes with tentative, or with reserved or
\* cancelled on a hold that was confirmed or released.
ReleaseWrittenOnlyWithTentative ==
  /\ \A i \in DOMAIN bookingsTable :
       bookingsTable[i].auto_release_at # NULL
         => bookingsTable[i].status \in {"tentative", "reserved", "cancelled"}
  /\ selectedPropertyId # NULL =>
       \A id \in {NULL} \cup DOMAIN bookings, roomIds \in RoomLists,
          p \in ValidDatePairs, sr \in FormStatusAndRelease :
         roomIds \in FormRoomLists(id) =>
           LET r == Call(Draft(id, "Ann", roomIds, p[1], p[2], sr[1], sr[2]), "none")
           IN  r.outcome \in {"created", "updated"} =>
                 \A i \in DOMAIN r.table :
                   (i \notin DOMAIN bookingsTable \/ i = id) =>
                     /\ r.table[i].status = sr[1]
                     /\ r.table[i].auto_release_at
                          = IF sr[1] = "tentative" THEN sr[2] ELSE NULL

\* a confirmed hold is stored as reserved with its release instant, and
\* saving it again from the form, which holds that instant, stores null
WitnessConfirmedHoldKeepsInstant ==
  /\ selectedPropertyId # NULL
  /\ \E i \in DOMAIN bookings :
       /\ i \in DOMAIN bookingsTable
       /\ bookingsTable[i].status = "reserved"
       /\ bookingsTable[i].auto_release_at # NULL
       /\ bookingsTable[i].room_id # NULL
       /\ LET r == Call(Draft(i, "Ann", <<bookingsTable[i].room_id>>,
                              bookingsTable[i].check_in, bookingsTable[i].check_out,
                              "reserved", bookingsTable[i].auto_release_at), "none")
          IN  r.outcome = "updated" /\ r.table[i].auto_release_at = NULL

\* C18: updateBookingStatus never takes a hold that a sweep has cancelled
\* (cancelled, with an auto_release_at that has passed) back to a status
\* other than cancelled, also when it is called from the Confirm button of
\* a list loaded before the sweep.
SweptHoldStaysCancelled ==
  [][UpdateBookingStatus =>
       \A i \in DOMAIN bookingsTable :
         (/\ bookingsTable[i].status = "cancelled"
          /\ bookingsTable[i].auto_release_at # NULL
          /\ bookingsTable[i].auto_release_at < now)
           => bookingsTable'[i].status = "cancelled"]_vars

\* the outcomes of upsertBooking that are rejections
Rejections ==
  {"no_property", "guest_required", "dates_required", "date_range", "conflict",
   "db_error"}

SweepKeepsConfirmedHold ==
  [][ReleaseExpiredHolds =>
       \A i \in DOMAIN bookingsTable :
         (/\ bookingsTable[i].status = "reserved"
          /\ bookingsTable[i].auto_release_at # NULL
          /\ bookingsTable[i].auto_release_at < now)
           => (i \in DOMAIN bookingsTable' /\ bookingsTable'[i] = bookingsTable[i])]_vars

\* a confirmed hold past its instant is still reserved after the sweep that
\* cancelled another hold, which the list loaded before still shows as
\* tentative
WitnessConfirmedSurvivesSweep ==
  \E i, j \in DOMAIN bookingsTable :
    /\ bookingsTable[i].status = "reserved"
    /\ bookingsTable[i].auto_release_at # NULL
    /\ bookingsTable[i].auto_release_at < now
    /\ bookingsTable[j].status = "cancelled"
    /\ bookingsTable[j].auto_release_at # NULL
    /\ j \in DOMAIN bookings
    /\ bookings[j].status = "tentative"

\* C21: a step of deleteRoom, deleteCategory or deleteProperty leaves every
\* booking that is tentative, reserved or checked_in stored with all its
\* fields, its room stored with its category, and the property stored.
DeletionsSpareActiveBookings ==
  [][(DeleteRoom \/ DeleteCategory \/ DeleteProperty) =>
       \A i \in DOMAIN bookingsTable :
         bookingsTable[i].status \in ActiveStatuses =>
           /\ i \in DOMAIN bookingsTable'
           /\ bookingsTable'[i] = bookingsTable[i]
           /\ propertiesTable' = propertiesTable
           /\ bookingsTable[i].room_id \in DOMAIN roomsTable =>
                /\ bookingsTable[i].room_id \in DOMAIN roomsTable'
                /\ roomsTable'[bookingsTable[i].room_id]
                     = roomsTable[bookingsTable[i].room_id]]_vars

\* a room has been deleted under a cancelled booking, which the list loaded
\* before still shows in its room, while the room of a reserved booking is
\* refused to deleteRoom and its category to deleteCategory
WitnessRoomDeleted ==
  \E i, j \in DOMAIN bookingsTable :
    /\ i \in DOMAIN bookings
    /\ bookings[i].room_id # NULL
    /\ bookings[i].room_id \notin DOMAIN roomsTable
    /\ bookingsTable[i].room_id = NULL
    /\ bookingsTable[i].status = "cancelled"
    /\ bookingsTable[j].status = "reserved"
    /\ bookingsTable[j].room_id \in DOMAIN roomsTable
    /\ roomsTable[bookingsTable[j].room_id] \in categoriesTable
    /\ deleteRoom(bookingsTable[j].room_id, bookingsTable, roomsTable,
                  categoriesTable, propertiesTable, "none").outcome = "active_bookings"
    /\ deleteCategory(roomsTable[bookingsTable[j].room_id], bookingsTable, roomsTable,
                      categoriesTable, propertiesTable, "none").outcome
         = "active_bookings"

\* C22: the log has one create entry for every booking ever stored and one
\* delete entry for every booking that has been deleted.
ActivityLogComplete ==
  /\ CopiesIn(CreateLogRow, bookingLogs) = nextId - 1
  /\ \A id \in 1..(nextId - 1) :
       id \notin DOMAIN bookingsTable => CopiesIn(DeleteLogRow(id), bookingLogs) = 1

\* C23: while the user is signed in and no loadBookingsPage request is in
\* flight, the list shown, its count and its page are the response to the
\* request issued last, the one for the filter now chosen.
LatestRequestWins ==
  (session # NULL /\ selectedPropertyId # NULL /\ requests = <<>>)
    => LET r == BookingsPage(bookingsTable, bookingStatusFilter, 1)
       IN  /\ bookings = r.bookings
           /\ bookingsCount = r.count
           /\ bookingsPage = r.page

\* C25: once the session is null the client holds no bookings and no
\* selected property.
SignedOutHoldsNoData ==
  session = NULL
    => /\ selectedPropertyId = NULL
       /\ bookings = <<>>
       /\ bookingsCount = 0
       /\ availabilityBookings = <<>>

\* C28: for every month, loadAvailabilityBookings returns exactly the
\* bookings that are not cancelled and whose stay [check_in, check_out)
\* meets the month: check_in before the day after the month's last day and
\* check_out after the month's first day.
MonthLoadIsIntersection ==
  \A month \in Months :
    loadAvailabilityBookings(bookingsTable, month, timeZone)
      = Restrict(bookingsTable,
                 {i \in DOMAIN bookingsTable :
                    /\ bookingsTable[i].status # "cancelled"
                    /\ bookingsTable[i].check_in < DayOf(endOfMonth(month)) + 1
                    /\ bookingsTable[i].check_out > DayOf(startOfMonth(month))})

\* C24: whenever the visible range of the calendar changes, the selection
\* is empty afterwards.
SelectionEmptyAfterRangeChange ==
  [][VisibleRangeNow' # VisibleRangeNow => rangeSelection' = EmptySelection]_vars

\* C30: for every booking shown, getBookingPosition is null exactly when
\* the stay [check-in, check-out) holds no visible day, and a bar it
\* returns starts at an index of at least 0, lasts at least one day and
\* ends within the visible days.
PositionInsideVisibleRange ==
  \A i \in DOMAIN availabilityBookings :
    LET b == bookingWithDates(availabilityBookings[i], timeZone)
        days == {DayOf(VisibleRangeNow.days[k]) : k \in DOMAIN VisibleRangeNow.days}
        meets == \E d \in days : DayOf(b.checkInDate) <= d /\ d < DayOf(b.checkOutDate)
        p == getBookingPosition(b, VisibleRangeNow)
    IN  /\ (p = <<>>) <=> ~meets
        /\ p # <<>> => /\ p[1] >= 0
                       /\ p[2] >= 1
                       /\ p[1] + p[2] <= Len(VisibleRangeNow.days)

\* the stored bookings that have a room
Assigned(table) == Restrict(table, {i \in DOMAIN table : table[i].room_id # NULL})

\* C27: a valid draft with no room is saved without a conflict query; as a
\* creation it stores exactly one booking, with room_id null, and changes
\* no other; and a draft with rooms is answered as if the bookings without
\* a room were not stored.
UnassignedNeverChecked ==
  selectedPropertyId # NULL =>
    /\ \A d \in ValidDrafts :
         d.room_ids = <<>> =>
           LET r == Call(d, "none")
           IN  /\ r.queries = 0
               /\ r.outcome = IF d.id = NULL THEN "created" ELSE "updated"
               /\ d.id = NULL =>
                    /\ DOMAIN r.table = DOMAIN bookingsTable \cup {nextId}
                    /\ r.table[nextId].room_id = NULL
                    /\ \A i \in DOMAIN bookingsTable : r.table[i] = bookingsTable[i]
    /\ \A d \in ValidDrafts :
         d.room_ids # <<>> =>
           Call(d, "none").outcome
             = upsertBooking(d, selectedPropertyId, Assigned(bookingsTable), nextId,
                             bookingLogs, "none").outcome

\* two bookings without a room, neither cancelled, are stored over the same
\* nights, and a draft for a room over those nights is accepted
WitnessUnassignedCoexist ==
  /\ selectedPropertyId # NULL
  /\ \E i, j \in DOMAIN bookingsTable :
       /\ i < j
       /\ bookingsTable[i].room_id = NULL
       /\ bookingsTable[j].room_id = NULL
       /\ bookingsTable[i].status # "cancelled"
       /\ bookingsTable[j].status # "cancelled"
       /\ bookingsTable[i].check_in < bookingsTable[j].check_out
       /\ bookingsTable[j].check_in < bookingsTable[i].check_out
       /\ \E d \in ValidDrafts :
            /\ d.id = NULL
            /\ d.room_ids # <<>>
            /\ d.check_in < bookingsTable[i].check_out
            /\ bookingsTable[i].check_in < d.check_out
            /\ Call(d, "none").outcome = "created"

\* C26: on every day the availability view counts at most as many occupied
\* rooms as the property has rooms, its daily rate lies between 0 and 100 and
\* its vacant count is not negative.
OccupancyWithinBounds ==
  selectedPropertyId # NULL =>
    \A day \in Days :
      LET totalRooms == Cardinality(DOMAIN roomsTable)
          occupied == occupiedToday(availabilityBookings, day)
      IN  /\ occupied <= totalRooms
          /\ dailyOccupancy(availabilityBookings, totalRooms, day) \in 0..100
          /\ visibleOccupancyPercents(availabilityBookings, totalRooms, day) \in 0..100
          /\ totalRooms - occupied >= 0

\* C29: bookingsPage is always at least 1; handleBookingsPageChange(page)
\* loads nothing for a page below 1 and, when bookingsCount is above 0, for
\* a page after the last one; and a deleteBooking of the only booking shown
\* on a page after the first leaves the list on the page before.
PageStaysValid ==
  /\ [](/\ bookingsPage >= 1
        /\ \A page \in PageInputs :
             (\/ page < 1
              \/ bookingsCount > 0 /\ (page - 1) * BOOKINGS_PAGE_SIZE >= bookingsCount)
               => handleBookingsPageChange(page, bookingsCount) = <<>>)
  /\ [][(/\ DeleteLastBooking
          /\ Cardinality(DOMAIN bookings) = 1
          /\ bookingsPage > 1) => bookingsPage' = bookingsPage - 1]_vars

\* the booking after the first full page was alone on page 2 and has been
\* deleted, which its log entry shows: the list is on page 1, and pages 0
\* and 2 are refused
WitnessLastOfPageDeleted ==
  /\ CopiesIn(DeleteLogRow(BOOKINGS_PAGE_SIZE + 1), bookingLogs) = 1
  /\ bookingsCount = BOOKINGS_PAGE_SIZE
  /\ bookingsPage = 1
  /\ handleBookingsPageChange(0, bookingsCount) = <<>>
  /\ handleBookingsPageChange(2, bookingsCount) = <<>>

====
